---- MODULE Spec2Model ----
(***************************************************************************)
(* The wormhole client (src/src/client/main.rs): the restart supervisor of *)
(* main, one connection attempt of run_wormhole (connect, handshake,       *)
(* writer task, reader loop), the dispatch of inbound control packets in   *)
(* process_control_flow_message, the tasks it spawns (delayed ping,        *)
(* delayed close) and the process-wide registry ACTIVE_STREAMS.            *)
(***************************************************************************)
EXTENDS Naturals, Sequences, FiniteSets

VARIABLES
    proc,            \* "running", or "exited" once the main task has panicked
    attempt,         \* the iteration of main's loop that is running
    main,            \* where the main task is inside run_wormhole
    cause,           \* the diagnostic of the attempt's end ("none" while it runs)
    cur,             \* the Data packet being dispatched, between establish and forward
    nEvents,         \* transport events so far, over all attempts
    wire,            \* per attempt: the messages written to its transport
    tunnel,          \* per attempt: the outbound queue (tunnel_tx / tunnel_rx)
    enqLog,          \* per attempt: every packet ever accepted by the outbound queue
    writer,          \* per attempt: the writer task, "none" / "running" / "stopped"
    restartSig,      \* per attempt: its writer has sent on its restart_tx
    pingTasks,       \* per attempt: delayed-ping tasks that are still sleeping
    pingsRecv,       \* per attempt: Ping packets the reader has dispatched
    ACTIVE_STREAMS,  \* the registry: StreamId -> channel, NoChan when absent
    nChans,          \* stream channels created so far
    chanId,          \* per channel: the StreamId it was established for
    chanOwner,       \* per channel: the attempt whose outbound queue its task holds
    chanMsgs,        \* per channel: the StreamMessages accepted by the channel
    stream,          \* per channel: its stream task, "unused" / "running" / "done"
    endTasks,        \* the delayed-close tasks spawned by End and not yet finished
    setupCalls,      \* per StreamId: the calls of setup_new_stream made for it
    last             \* the inbound message the running attempt's reader took last

vars == << proc, attempt, main, cause, cur, nEvents, wire, tunnel, enqLog, writer,
           restartSig, pingTasks, pingsRecv, ACTIVE_STREAMS, nChans, chanId,
           chanOwner, chanMsgs, stream, endTasks, setupCalls, last >>

\* ------------------------------------------------------------------ bounds
\* Transport events over the whole run: inbound messages delivered to the
\* reader, read failures or stream ends, and write failures.
MaxEvents == 3

\* Every restart follows a transport event and every channel a Data message.
MaxAttempts == MaxEvents + 1
MaxChans    == MaxEvents

Attempts  == 1..MaxAttempts
Chans     == 1..MaxChans
StreamIds == {1}
NoChan    == 0
NoMsg     == [t |-> "None", id |-> 0, data |-> 0]
\* The main task is not inside the Data arm.
NoCur     == [id |-> 0, data |-> 0, setup |-> "none"]
\* The running attempt's reader has not taken a message yet.
NoLast    == [t |-> "None", id |-> 0, at |-> 0, setup |-> "none"]

\* ------------------------------------------------------------------ data
Ping           == [t |-> "Ping", id |-> 0, data |-> 0]
Init_(i)       == [t |-> "Init", id |-> i, data |-> 0]
Refused(i)     == [t |-> "Refused", id |-> i, data |-> 0]
End(i)         == [t |-> "End", id |-> i, data |-> 0]
Data(i, d)     == [t |-> "Data", id |-> i, data |-> d]

\* The JSON hello the client writes first on every transport.
ClientHello    == [t |-> "ClientHello", id |-> 0, data |-> 0]

PacketTags == {"Init", "Data", "Refused", "End", "Ping"}

\* StreamMessage
SData(d) == [t |-> "Data", data |-> d]
SClose   == [t |-> "Close", data |-> 0]

\* ServerHello replies, and the three ways the reply can be missing
ServerHello == {"Success", "AuthFailed", "InvalidSubDomain", "SubDomainInUse"}
HelloReplies == ServerHello \cup {"Malformed", "HelloReadError", "Empty"}

\* The inbound messages the relay can send as the k-th message: each packet
\* variant (a Data payload is numbered by its position in the stream), and a
\* message with an unknown tag.
Inbound(k) ==
    {Ping, [t |-> "Garbage", id |-> 0, data |-> 0]}
        \cup { Init_(i) : i \in StreamIds }
        \cup { Refused(i) : i \in StreamIds }
        \cup { End(i) : i \in StreamIds }
        \cup { Data(i, k) : i \in StreamIds }

\* ControlPacket::deserialize: a known tag decodes to its packet, anything
\* else is a decode error.
deserialize(m) ==
    IF m.t \in PacketTags THEN [ok |-> TRUE, pkt |-> m]
                          ELSE [ok |-> FALSE, pkt |-> NoMsg]

\* ------------------------------------------------------------------ initial state
\* main has read the configuration and entered its loop: the first attempt is
\* about to connect, nothing is registered, no task exists.
Init ==
    /\ proc = "running"
    /\ attempt = 1
    /\ main = "connect"
    /\ cause = "none"
    /\ cur = NoCur
    /\ nEvents = 0
    /\ wire = [a \in Attempts |-> << >>]
    /\ tunnel = [a \in Attempts |-> << >>]
    /\ enqLog = [a \in Attempts |-> << >>]
    /\ writer = [a \in Attempts |-> "none"]
    /\ restartSig = [a \in Attempts |-> FALSE]
    /\ pingTasks = [a \in Attempts |-> 0]
    /\ pingsRecv = [a \in Attempts |-> 0]
    /\ ACTIVE_STREAMS = [i \in StreamIds |-> NoChan]
    /\ nChans = 0
    /\ chanId = [c \in Chans |-> 0]
    /\ chanOwner = [c \in Chans |-> 0]
    /\ chanMsgs = [c \in Chans |-> << >>]
    /\ stream = [c \in Chans |-> "unused"]
    /\ endTasks = {}
    /\ setupCalls = [i \in StreamIds |-> 0]
    /\ last = NoLast

netVars  == << wire, tunnel, enqLog, writer, restartSig >>
pingVars == << pingTasks, pingsRecv >>
regVars  == << ACTIVE_STREAMS, nChans, chanId, chanOwner, chanMsgs, stream >>
endVars  == << endTasks >>
histVars == << setupCalls, last >>

\* ------------------------------------------------------------------ outbound queue
\* The receiving half of an attempt's outbound queue lives in its writer task:
\* a send is accepted until the writer has returned and dropped tunnel_rx.
QueueOpen(a) == writer[a] = "running"

\* tunnel_tx.send(p) on an open queue.
TunnelSend(a, ps) ==
    /\ tunnel' = [tunnel EXCEPT ![a] = @ \o ps]
    /\ enqLog' = [enqLog EXCEPT ![a] = @ \o ps]

\* ------------------------------------------------------------------ connect, handshake
\* connect_async(...).expect(...): a failed connect panics in the main task.
ConnectOutcome(ok) == IF ok THEN "proceed" ELSE "panic"

\* websocket.send(hello).expect(...): a failed send panics in the main task.
HelloSendOutcome(ok) == IF ok THEN "proceed" ELSE "panic"

\* A negotiator that hands AuthFailed back to the supervisor as a failed attempt.
HelloOutcomeAuthRetry(r) ==
    IF r = "Success" THEN "proceed" ELSE IF r = "AuthFailed" THEN "return" ELSE "panic"

\* A negotiator that treats SubDomainInUse as a failed attempt to be retried.
HelloOutcomeInUseRetry(r) ==
    IF r = "Success" THEN "proceed" ELSE IF r = "SubDomainInUse" THEN "return" ELSE "panic"

\* The match on the server's reply: Success proceeds, every other arm panics.
HelloOutcome(r) == IF r = "Success" THEN "proceed" ELSE "panic"

\* "kick off the pings": what run_wormhole enqueues before its read loop.
KickOff == << Ping >>

\* A connect that sends its hello a second time.
HelloWriteTwice == << ClientHello, ClientHello >>

\* What connect_to_wormhole writes on the fresh websocket: the hello, once.
HelloWrite == << ClientHello >>

\* The main task ends the step with outcome o: it goes on to `next`, returns
\* from run_wormhole, or panics, which ends the process.
MainStep(o, next, why) ==
    /\ main' = CASE o = "proceed" -> next
                 [] o = "return"  -> "returned"
                 [] OTHER         -> main
    /\ proc' = IF o = "panic" THEN "exited" ELSE proc
    /\ cause' = IF o = "proceed" THEN cause ELSE why

\* connect_to_wormhole, up to the ClientHello being sent.
Connect(okConn, okSend) ==
    /\ proc = "running" /\ main = "connect"
    /\ LET o == IF ConnectOutcome(okConn) = "proceed"
                THEN HelloSendOutcome(okSend) ELSE ConnectOutcome(okConn)
           why == IF okConn THEN "HelloSendFailed" ELSE "ConnectFailed"
       IN /\ MainStep(o, "handshake", why)
          /\ wire' = IF okConn /\ okSend
                     THEN [wire EXCEPT ![attempt] = HelloWrite] ELSE wire
    /\ UNCHANGED << attempt, cur, nEvents, tunnel, enqLog, writer, restartSig >>
    /\ UNCHANGED << pingVars, regVars, endVars >>
    /\ UNCHANGED histVars

\* The reply to the ClientHello arrives (or the transport fails or ends); on
\* Success run_wormhole splits the socket, spawns the writer and kicks off the
\* pings, and the main task is at the first read of its loop.
Handshake(r) ==
    /\ proc = "running" /\ main = "handshake"
    /\ LET o == HelloOutcome(r) IN
          /\ MainStep(o, "read", r)
          /\ IF o = "proceed"
             THEN /\ writer' = [writer EXCEPT ![attempt] = "running"]
                  /\ TunnelSend(attempt, KickOff)
             ELSE UNCHANGED << writer, tunnel, enqLog >>
    /\ UNCHANGED << attempt, cur, nEvents, wire, restartSig >>
    /\ UNCHANGED << pingVars, regVars, endVars >>
    /\ UNCHANGED histVars

\* ------------------------------------------------------------------ reader: dispatch
\* A read loop that unwraps the dispatcher's result instead of returning.
DispatchErrorPanics == "panic"

\* What the read loop does with an error returned by
\* process_control_flow_message, and with a transport error or stream end.
DispatchErrorOutcome == "return"
TransportEndOutcome  == "return"

\* ControlPacket::Refused(_) => return Err(..)
RefusedResult == "err"

\* A dispatcher that spawns two ping tasks for one received Ping.
SpawnPingTwice(n) == n + 2

\* The sleeping delayed-ping tasks after one more Ping has been received:
\* one task is spawned for it.
SpawnPing(n) == n + 1

\* A dispatcher that only logs "got data but no stream to send it to".
RefusalNone(i) == << >>

\* What the dispatcher enqueues when it finds no stream to forward Data to.
Refusal(i) == << Refused(i) >>

\* A dispatcher that establishes the stream already on Init, in the Data arm.
ArmInitEstablishes(pkt) == IF pkt.t = "Init" THEN "Data" ELSE pkt.t

\* match control_packet: the arm that handles a decoded packet.
Arm(pkt) == pkt.t

\* The message the reader has just taken from ws_stream, as event number k,
\* and what its dispatch did about setup_new_stream ("none": no call).
Taken(m, k, s) == [t |-> m.t, id |-> m.id, at |-> k, setup |-> s]

\* The sender of a stream channel succeeds while the stream task holds the
\* receiver.
ChanOpen(c) == stream[c] = "running"

\* The reader waits in ws_stream.next() and the transport has an event for it.
CanRead == proc = "running" /\ main = "read" /\ nEvents < MaxEvents

\* ws_stream.next() returned Some(Err(e)) or None.
ReaderTransportEnd(why) ==
    /\ CanRead
    /\ nEvents' = nEvents + 1
    /\ MainStep(TransportEndOutcome, "read", why)
    /\ UNCHANGED << attempt, cur, netVars, pingVars, regVars, endVars >>
    /\ UNCHANGED histVars

\* deserialize fails: the `?` returns the error to the read loop.
OnDecodeError(m) ==
    /\ CanRead /\ ~deserialize(m).ok
    /\ nEvents' = nEvents + 1
    /\ MainStep(DispatchErrorOutcome, "read", "DecodeError")
    /\ UNCHANGED << attempt, cur, netVars, pingVars, regVars, endVars >>
    /\ last' = Taken(m, nEvents + 1, "none")
    /\ UNCHANGED setupCalls

\* ControlPacket::Init: logged only.
OnInit(m) ==
    /\ CanRead /\ deserialize(m).ok /\ Arm(deserialize(m).pkt) = "Init"
    /\ nEvents' = nEvents + 1
    /\ UNCHANGED << proc, attempt, main, cause, cur >>
    /\ UNCHANGED << netVars, pingVars, regVars, endVars >>
    /\ last' = Taken(m, nEvents + 1, "none")
    /\ UNCHANGED setupCalls

\* ControlPacket::Ping: spawn a task that sleeps PING_INTERVAL, then sends Ping.
OnPing(m) ==
    /\ CanRead /\ deserialize(m).ok /\ Arm(deserialize(m).pkt) = "Ping"
    /\ nEvents' = nEvents + 1
    /\ pingsRecv' = [pingsRecv EXCEPT ![attempt] = @ + 1]
    /\ pingTasks' = [pingTasks EXCEPT ![attempt] = SpawnPing(@)]
    /\ UNCHANGED << proc, attempt, main, cause, cur >>
    /\ UNCHANGED << netVars, regVars, endVars >>
    /\ last' = Taken(m, nEvents + 1, "none")
    /\ UNCHANGED setupCalls

\* ControlPacket::Refused: an error for the read loop.
OnRefused(m) ==
    /\ CanRead /\ deserialize(m).ok /\ Arm(deserialize(m).pkt) = "Refused"
    /\ nEvents' = nEvents + 1
    /\ MainStep(IF RefusedResult = "err" THEN DispatchErrorOutcome ELSE "proceed",
                "read", "UnexpectedRefused")
    /\ UNCHANGED << attempt, cur, netVars, pingVars, regVars, endVars >>
    /\ last' = Taken(m, nEvents + 1, "none")
    /\ UNCHANGED setupCalls

\* ControlPacket::End: spawn the delayed-close task; it has not run yet.
OnEnd(m) ==
    /\ CanRead /\ deserialize(m).ok /\ Arm(deserialize(m).pkt) = "End"
    /\ nEvents' = nEvents + 1
    /\ endTasks' = endTasks \cup
          { [at |-> nEvents + 1, id |-> deserialize(m).pkt.id,
             pc |-> "spawned", tx |-> NoChan,
             seen |-> ACTIVE_STREAMS[deserialize(m).pkt.id]] }
    /\ UNCHANGED << proc, attempt, main, cause, cur >>
    /\ UNCHANGED << netVars, pingVars, regVars >>
    /\ last' = Taken(m, nEvents + 1, "none")
    /\ UNCHANGED setupCalls

\* local::setup_new_stream(local_port, tunnel_tx, id): when the local service
\* is reached, a fresh channel is registered for id and its stream task holds
\* the receiver and a clone of the attempt's tunnel_tx; otherwise nothing.
setup_new_stream(i, ok) ==
    IF ok
    THEN /\ nChans' = nChans + 1
         /\ ACTIVE_STREAMS' = [ACTIVE_STREAMS EXCEPT ![i] = nChans + 1]
         /\ chanId' = [chanId EXCEPT ![nChans + 1] = i]
         /\ chanOwner' = [chanOwner EXCEPT ![nChans + 1] = attempt]
         /\ stream' = [stream EXCEPT ![nChans + 1] = "running"]
         /\ UNCHANGED chanMsgs
    ELSE UNCHANGED regVars

\* A Data arm that establishes a stream for every Data packet.
NeedsSetupAlways(i) == TRUE

\* Whether the Data arm calls setup_new_stream for id i.
NeedsSetup(i) == ACTIVE_STREAMS[i] = NoChan

\* ControlPacket::Data, first half: the contains_key check and, for an
\* unregistered id, the awaited setup_new_stream.
OnData(m, ok) ==
    /\ CanRead /\ deserialize(m).ok /\ Arm(deserialize(m).pkt) = "Data"
    /\ nEvents' = nEvents + 1
    /\ IF NeedsSetup(deserialize(m).pkt.id)
       THEN setup_new_stream(deserialize(m).pkt.id, ok)
       ELSE ok /\ UNCHANGED regVars
    /\ main' = "forward"
    /\ cur' = [id |-> deserialize(m).pkt.id, data |-> deserialize(m).pkt.data,
               setup |-> IF ~NeedsSetup(deserialize(m).pkt.id) THEN "none"
                         ELSE IF ok THEN "ok" ELSE "failed"]
    /\ UNCHANGED << proc, attempt, cause, netVars, pingVars, endVars >>
    /\ last' = Taken(m, nEvents + 1, cur'.setup)
    /\ setupCalls' = IF NeedsSetup(deserialize(m).pkt.id)
                     THEN [setupCalls EXCEPT ![deserialize(m).pkt.id] = @ + 1]
                     ELSE setupCalls

\* ControlPacket::Data, second half: look the stream up again and forward the
\* payload to it, or enqueue Refused when there is none; either send's error
\* is returned to the read loop by `?`.
ReaderForward ==
    /\ proc = "running" /\ main = "forward"
    /\ LET c == ACTIVE_STREAMS[cur.id] IN
         IF c # NoChan
         THEN /\ IF ChanOpen(c)
                 THEN /\ chanMsgs' = [chanMsgs EXCEPT ![c] = Append(@, SData(cur.data))]
                      /\ MainStep("proceed", "read", "none")
                 ELSE /\ UNCHANGED chanMsgs
                      /\ MainStep(DispatchErrorOutcome, "read", "ForwardError")
              /\ UNCHANGED << tunnel, enqLog >>
         ELSE /\ IF QueueOpen(attempt)
                 THEN /\ TunnelSend(attempt, Refusal(cur.id))
                      /\ MainStep("proceed", "read", "none")
                 ELSE /\ UNCHANGED << tunnel, enqLog >>
                      /\ MainStep(DispatchErrorOutcome, "read", "TunnelSendError")
              /\ UNCHANGED chanMsgs
    /\ cur' = NoCur
    /\ UNCHANGED << attempt, nEvents, wire, writer, restartSig, pingVars, endVars >>
    /\ UNCHANGED << ACTIVE_STREAMS, nChans, chanId, chanOwner, stream >>
    /\ UNCHANGED histVars

\* ------------------------------------------------------------------ writer task
\* The senders of attempt a's outbound queue: run_wormhole's tunnel_tx while
\* its future is alive, the clone in every sleeping ping task, and the clone
\* given to every stream task set up under a.
MainHoldsQueue(a) == proc = "running" /\ a = attempt /\ main \in {"read", "forward"}

NoSenders(a) ==
    /\ ~MainHoldsQueue(a)
    /\ pingTasks[a] = 0
    /\ \A c \in Chans : ~(stream[c] = "running" /\ chanOwner[c] = a)

\* A writer that takes the newest packet of the queue first.
NextPacketNewest(q) == q[Len(q)]

\* The order in which the writer takes packets from the queue.
NextPacket(q) == Head(q)
RestOfQueue(q) == Tail(q)

\* tunnel_rx.next() yields a packet and ws_sink.send succeeds.
WriterWrite(a) ==
    /\ proc = "running" /\ writer[a] = "running" /\ tunnel[a] # << >>
    /\ wire' = [wire EXCEPT ![a] = Append(@, NextPacket(tunnel[a]))]
    /\ tunnel' = [tunnel EXCEPT ![a] = RestOfQueue(@)]
    /\ UNCHANGED << proc, attempt, main, cause, cur, nEvents >>
    /\ UNCHANGED << enqLog, writer, restartSig, pingVars, regVars, endVars >>
    /\ UNCHANGED histVars

\* ws_sink.send fails: the writer signals restart_tx and returns, dropping
\* tunnel_rx and ws_sink.
WriterFail(a) ==
    /\ proc = "running" /\ writer[a] = "running" /\ tunnel[a] # << >>
    /\ nEvents < MaxEvents
    /\ nEvents' = nEvents + 1
    /\ tunnel' = [tunnel EXCEPT ![a] = RestOfQueue(@)]
    /\ writer' = [writer EXCEPT ![a] = "stopped"]
    /\ restartSig' = [restartSig EXCEPT ![a] = TRUE]
    /\ UNCHANGED << proc, attempt, main, cause, cur >>
    /\ UNCHANGED << wire, enqLog, pingVars, regVars, endVars >>
    /\ UNCHANGED histVars

\* tunnel_rx.next() yields None (every sender is gone): signal and return.
WriterQueueClosed(a) ==
    /\ proc = "running" /\ writer[a] = "running" /\ tunnel[a] = << >>
    /\ NoSenders(a)
    /\ writer' = [writer EXCEPT ![a] = "stopped"]
    /\ restartSig' = [restartSig EXCEPT ![a] = TRUE]
    /\ UNCHANGED << proc, attempt, main, cause, cur, nEvents >>
    /\ UNCHANGED << wire, tunnel, enqLog, pingVars, regVars, endVars >>
    /\ UNCHANGED histVars

\* ------------------------------------------------------------------ delayed ping
\* A ping task wakes after PING_INTERVAL and sends Ping on its clone of the
\* queue of the attempt that spawned it; the result of the send is dropped.
PingTaskFire(a) ==
    /\ proc = "running" /\ pingTasks[a] > 0
    /\ pingTasks' = [pingTasks EXCEPT ![a] = @ - 1]
    /\ IF QueueOpen(a) THEN TunnelSend(a, << Ping >>)
                       ELSE UNCHANGED << tunnel, enqLog >>
    /\ UNCHANGED << proc, attempt, main, cause, cur, nEvents >>
    /\ UNCHANGED << wire, writer, restartSig, pingsRecv, regVars, endVars >>
    /\ UNCHANGED histVars

\* ------------------------------------------------------------------ delayed close
\* Where the delayed-close task goes after its lookup of the registry.
AfterLookup(c) == IF c = NoChan THEN "done" ELSE "delay"

\* A delayed-close task that takes the entry out of the registry at once.
RegistryRemoveAtLookup(reg, i) == [reg EXCEPT ![i] = NoChan]

\* The registry after the task's lookup: the read lock changes nothing.
RegistryAfterLookup(reg, i) == reg

\* The task starts: ACTIVE_STREAMS.read().get(&stream_id).cloned()
EndTaskLookup(t) ==
    /\ proc = "running" /\ t \in endTasks /\ t.pc = "spawned"
    /\ ACTIVE_STREAMS' = RegistryAfterLookup(ACTIVE_STREAMS, t.id)
    /\ LET c == ACTIVE_STREAMS[t.id] IN
         endTasks' = (endTasks \ {t}) \cup
            (IF AfterLookup(c) = "done" THEN {}
             ELSE { [t EXCEPT !.pc = AfterLookup(c), !.tx = c] })
    /\ UNCHANGED << proc, attempt, main, cause, cur, nEvents >>
    /\ UNCHANGED << netVars, pingVars >>
    /\ UNCHANGED << nChans, chanId, chanOwner, chanMsgs, stream >>
    /\ UNCHANGED histVars

\* The 5 s delay is over: tx.send(StreamMessage::Close), its error only logged.
EndTaskClose(t) ==
    /\ proc = "running" /\ t \in endTasks /\ t.pc = "delay"
    /\ chanMsgs' = IF ChanOpen(t.tx)
                   THEN [chanMsgs EXCEPT ![t.tx] = Append(@, SClose)]
                   ELSE chanMsgs
    /\ endTasks' = (endTasks \ {t}) \cup { [t EXCEPT !.pc = "closed"] }
    /\ UNCHANGED << proc, attempt, main, cause, cur, nEvents >>
    /\ UNCHANGED << netVars, pingVars >>
    /\ UNCHANGED << ACTIVE_STREAMS, nChans, chanId, chanOwner, stream >>
    /\ UNCHANGED histVars

\* ACTIVE_STREAMS.write().remove(&stream_id)
EndTaskRemove(t) ==
    /\ proc = "running" /\ t \in endTasks /\ t.pc = "closed"
    /\ ACTIVE_STREAMS' = [ACTIVE_STREAMS EXCEPT ![t.id] = NoChan]
    /\ endTasks' = endTasks \ {t}
    /\ UNCHANGED << proc, attempt, main, cause, cur, nEvents >>
    /\ UNCHANGED << netVars, pingVars >>
    /\ UNCHANGED << nChans, chanId, chanOwner, chanMsgs, stream >>
    /\ UNCHANGED histVars

\* ------------------------------------------------------------------ stream tasks
\* The stream task receives Close and ends, dropping its receiver.
StreamRecvClose(c) ==
    /\ proc = "running" /\ stream[c] = "running"
    /\ \E k \in 1..Len(chanMsgs[c]) : chanMsgs[c][k] = SClose
    /\ stream' = [stream EXCEPT ![c] = "done"]
    /\ UNCHANGED << proc, attempt, main, cause, cur, nEvents >>
    /\ UNCHANGED << netVars, pingVars, endVars >>
    /\ UNCHANGED << ACTIVE_STREAMS, nChans, chanId, chanOwner, chanMsgs >>
    /\ UNCHANGED histVars

\* The stream task sees its local peer close: it removes its StreamId from
\* the registry and ends.
StreamPeerClose(c) ==
    /\ proc = "running" /\ stream[c] = "running"
    /\ ACTIVE_STREAMS' = [ACTIVE_STREAMS EXCEPT ![chanId[c]] = NoChan]
    /\ stream' = [stream EXCEPT ![c] = "done"]
    /\ UNCHANGED << proc, attempt, main, cause, cur, nEvents >>
    /\ UNCHANGED << netVars, pingVars, endVars >>
    /\ UNCHANGED << nChans, chanId, chanOwner, chanMsgs >>
    /\ UNCHANGED histVars

\* ------------------------------------------------------------------ supervisor
\* A supervisor that awaits run_wormhole alone and never looks at restart_rx.
NoRestartWatch == FALSE

\* A supervisor with one restart channel for all iterations: the signal of
\* any attempt's writer reaches it.
AnyRestartPending == \E a \in Attempts : restartSig[a]

\* restart_rx.next() of the running iteration is ready: the channel is made
\* anew in every iteration, so only the running attempt's writer reaches it.
RestartPending == restartSig[attempt]

\* select(wormhole, restart_rx.next()) completes: run_wormhole has returned,
\* or the restart signal has arrived and the future is dropped where it
\* stands; the loop logs "restarting wormhole" and starts the next attempt.
SupervisorRestart ==
    /\ proc = "running"
    /\ \/ main = "returned"
       \/ main \in {"read", "forward"} /\ RestartPending
    /\ attempt' = attempt + 1
    /\ main' = "connect"
    /\ cause' = "none"
    /\ cur' = NoCur
    /\ UNCHANGED << proc, nEvents, netVars, pingVars, regVars, endVars >>
    /\ last' = NoLast
    /\ UNCHANGED setupCalls

\* ------------------------------------------------------------------ specification
Next ==
    \/ \E okConn, okSend \in BOOLEAN : Connect(okConn, okSend)
    \/ \E r \in HelloReplies : Handshake(r)
    \/ \E why \in {"ReadError", "StreamEnd"} : ReaderTransportEnd(why)
    \/ \E m \in Inbound(nEvents + 1) : OnDecodeError(m)
    \/ \E m \in Inbound(nEvents + 1) : OnInit(m)
    \/ \E m \in Inbound(nEvents + 1) : OnPing(m)
    \/ \E m \in Inbound(nEvents + 1) : OnRefused(m)
    \/ \E m \in Inbound(nEvents + 1) : OnEnd(m)
    \/ \E m \in Inbound(nEvents + 1), ok \in BOOLEAN : OnData(m, ok)
    \/ ReaderForward
    \/ \E a \in Attempts : WriterWrite(a)
    \/ \E a \in Attempts : WriterFail(a)
    \/ \E a \in Attempts : WriterQueueClosed(a)
    \/ \E a \in Attempts : PingTaskFire(a)
    \/ \E t \in endTasks : EndTaskLookup(t)
    \/ \E t \in endTasks : EndTaskClose(t)
    \/ \E t \in endTasks : EndTaskRemove(t)
    \/ \E c \in Chans : StreamRecvClose(c)
    \/ \E c \in Chans : StreamPeerClose(c)
    \/ SupervisorRestart

Spec == Init /\ [][Next]_vars

\* The main task is polled whenever its select is ready, and a sleeping task
\* wakes when its delay is over.
FairSpec ==
    /\ Spec
    /\ WF_vars(SupervisorRestart)
    /\ \A a \in Attempts : WF_vars(PingTaskFire(a))

\* ------------------------------------------------------------------ derived state
\* The state of the running attempt in the terms of the connection manager's
\* state machine: Active while the read loop and the writer task both run.
State ==
    CASE proc = "exited"     -> "Terminated"
      [] main = "connect"    -> "Connecting"
      [] main = "handshake"  -> "Handshaking"
      [] main \in {"read", "forward"} /\ writer[attempt] = "running" -> "Active"
      [] OTHER               -> "Terminated"

\* The running attempt got as far as Active and has ended: its read loop has
\* returned, or its writer has stopped.
ActiveEnded ==
    /\ proc = "running"
    /\ \/ main = "returned"
       \/ main \in {"read", "forward"} /\ writer[attempt] = "stopped"

PingCount(q) == Cardinality({ k \in 1..Len(q) : q[k] = Ping })

\* ------------------------------------------------------------------ claims
\* C1: in every attempt the first packet enqueued is the one Ping kicked off
\* after the handshake, before any inbound message is dispatched; the Pings
\* enqueued never exceed 1 + the Pings received; and while the attempt's
\* writer runs every received Ping is either enqueued again or still waiting
\* in its delay, so with no delay pending the two numbers are equal.
C1_KeepalivePings ==
    \A a \in Attempts :
        /\ PingCount(enqLog[a]) <= 1 + pingsRecv[a]
        /\ writer[a] # "none" => /\ enqLog[a] # << >>
                                 /\ enqLog[a][1] = Ping
        /\ writer[a] # "none" /\ pingsRecv[a] = 0 => PingCount(enqLog[a]) = 1
        /\ writer[a] = "none" => enqLog[a] = << >>
        /\ writer[a] = "running" =>
               PingCount(enqLog[a]) + pingTasks[a] = 1 + pingsRecv[a]

\* Two Pings received, both delays over, three Pings enqueued.
C1_Witness ==
    \E a \in Attempts :
        /\ writer[a] = "running" /\ pingsRecv[a] = 2 /\ pingTasks[a] = 0
        /\ PingCount(enqLog[a]) = 3

\* C2: once an Active attempt has ended (read loop returned, or writer stopped
\* after raising the restart signal while the reader still waits), the
\* supervisor starts the next attempt; the attempt number only ever changes by
\* the supervisor moving from an ended attempt to the connect of the next one;
\* and the process never exits from an attempt that is past its handshake.
C2_RestartAfterTermination ==
    /\ \A n \in Attempts : (attempt = n /\ ActiveEnded) ~> (attempt = n + 1)
    /\ [][attempt' # attempt =>
            ActiveEnded /\ attempt' = attempt + 1 /\ main' = "connect"]_vars
    /\ [][proc = "running" /\ proc' = "exited" =>
            main \in {"connect", "handshake"}]_vars

\* The second attempt is connecting after the first one's writer failed or
\* found its queue closed.
C2_Witness ==
    /\ attempt = 2 /\ main = "connect" /\ proc = "running"
    /\ writer[1] = "stopped" /\ restartSig[1]

\* C3: a transport connect failure ends only the attempt, the process keeps
\* running.
C3_ConnectFailureRestarts == cause = "ConnectFailed" => proc = "running"

HandshakeTerminal == {"AuthFailed", "InvalidSubDomain", "Malformed", "Empty"}

\* C4: after AuthFailed, InvalidSubDomain, a malformed or an empty reply the
\* process has exited in the handshake: no writer was spawned, no control
\* packet was enqueued, only the ClientHello was written, and no later
\* attempt has touched a transport.
C4_HandshakeTerminal ==
    cause \in HandshakeTerminal =>
        /\ proc = "exited" /\ main = "handshake"
        /\ writer[attempt] = "none"
        /\ enqLog[attempt] = << >>
        /\ wire[attempt] = << ClientHello >>
        /\ \A a \in Attempts : a > attempt => wire[a] = << >>

\* The server rejected the key in the handshake of a second attempt.
C4_Witness ==
    /\ cause = "AuthFailed" /\ proc = "exited" /\ attempt = 2

\* The diagnostics of an attempt that ends after its handshake.
ActiveFailures ==
    {"ReadError", "StreamEnd", "DecodeError", "UnexpectedRefused",
     "ForwardError", "TunnelSendError"}

ProtocolFatal == {"DecodeError", "UnexpectedRefused"}

C6_ProtocolFatal ==
    /\ [](cause \in ProtocolFatal =>
            proc = "running" /\ main = "returned" /\ cur = NoCur)
    /\ [][cause' \in ProtocolFatal /\ cause # cause' =>
            /\ main = "read" /\ attempt' = attempt
            /\ UNCHANGED << netVars, pingVars, regVars, endVars >>]_vars
    /\ \A n \in Attempts : (attempt = n /\ cause \in ProtocolFatal) ~> (attempt = n + 1)

\* A Refused arrived while a stream was registered; the read loop has returned.
C6_Witness ==
    /\ cause = "UnexpectedRefused" /\ main = "returned" /\ proc = "running"
    /\ ACTIVE_STREAMS[1] # NoChan

\* C7: when the Data arm's setup_new_stream has failed, the registry has no
\* entry for the id, and the second half of the arm, run in an Active attempt,
\* enqueues exactly Refused(id), creates no entry and no channel, delivers
\* nothing to any stream channel, and returns to the read loop.
C7_RefusedOnFailedSetup ==
    /\ [](main = "forward" /\ cur.setup = "failed" =>
            ACTIVE_STREAMS[cur.id] = NoChan)
    /\ [][main = "forward" /\ cur.setup = "failed" /\ State = "Active"
          /\ main' # "forward" =>
            /\ enqLog'[attempt] = Append(enqLog[attempt], Refused(cur.id))
            /\ tunnel'[attempt] = Append(tunnel[attempt], Refused(cur.id))
            /\ \A a \in Attempts \ {attempt} : enqLog'[a] = enqLog[a]
            /\ UNCHANGED << ACTIVE_STREAMS, nChans, chanMsgs >>
            /\ main' = "read" /\ proc' = "running" /\ attempt' = attempt]_vars

\* No stream was ever set up, one Refused(1) is in the queue's log and the
\* reader is back in its loop.
C7_Witness ==
    /\ nChans = 0 /\ ACTIVE_STREAMS[1] = NoChan /\ State = "Active" /\ main = "read"
    /\ Cardinality({ k \in 1..Len(enqLog[attempt]) :
                        enqLog[attempt][k] = Refused(1) }) = 1

\* C8: forwarding Data to a registered stream whose receiver is gone leaves the
\* reader in its loop.
C8_DroppedReceiverNonFatal ==
    [][/\ main = "forward" /\ ACTIVE_STREAMS[cur.id] # NoChan
       /\ ~ChanOpen(ACTIVE_STREAMS[cur.id])
       /\ main' # "forward" /\ attempt' = attempt
       => main' = "read"]_vars

\* C9 (as stated): while a delayed-close task is in its grace period the entry
\* it looked up is in the registry.
C9_EntryStaysDuringGrace ==
    \A t \in endTasks : t.pc = "delay" => ACTIVE_STREAMS[t.id] = t.tx

\* C9 (amended): the delayed-close task changes nothing in the registry by its
\* lookup or during its delay; when the delay is over it sends Close on the
\* channel it looked up (accepted while the receiver lives) and then removes
\* the entry of its id; Data for an id that is registered calls no
\* setup_new_stream, and when it is forwarded it is appended to the channel of
\* the entry.
C9_EndGrace ==
    /\ [][\A t \in endTasks :
            /\ t.pc = "spawned" /\ t \notin endTasks' =>
                  ACTIVE_STREAMS' = ACTIVE_STREAMS
            /\ t.pc = "delay" /\ t \notin endTasks' =>
                  /\ ACTIVE_STREAMS' = ACTIVE_STREAMS
                  /\ [t EXCEPT !.pc = "closed"] \in endTasks'
                  /\ ChanOpen(t.tx) =>
                        chanMsgs'[t.tx] = Append(chanMsgs[t.tx], SClose)
            /\ t.pc = "closed" /\ t \notin endTasks' =>
                  ACTIVE_STREAMS'[t.id] = NoChan]_vars
    /\ [][main = "read" /\ main' = "forward" /\ ACTIVE_STREAMS[cur'.id] # NoChan =>
            cur'.setup = "none" /\ UNCHANGED << ACTIVE_STREAMS, nChans >>]_vars
    /\ [][main = "forward" /\ main' = "read" /\ ACTIVE_STREAMS[cur.id] # NoChan =>
            chanMsgs'[ACTIVE_STREAMS[cur.id]] =
                Append(chanMsgs[ACTIVE_STREAMS[cur.id]], SData(cur.data))]_vars

\* A delayed-close task is in its grace period, its entry is still registered
\* and the channel holds Data that arrived after the End.
C9_Witness ==
    \E t \in endTasks :
        /\ t.pc = "delay" /\ ACTIVE_STREAMS[t.id] = t.tx
        /\ \E k \in 1..Len(chanMsgs[t.tx]) :
              chanMsgs[t.tx][k].t = "Data" /\ chanMsgs[t.tx][k].data > t.at

\* C10: within one connection a StreamId whose entry has been removed is not
\* registered again: an entry is only created for an id that has had no
\* channel under the running attempt.
C10_NoReuseOfStreamId ==
    [][\A i \in StreamIds :
         ACTIVE_STREAMS[i] = NoChan /\ ACTIVE_STREAMS'[i] # NoChan =>
            ~ \E c \in 1..nChans : chanId[c] = i /\ chanOwner[c] = attempt]_vars

\* The reader takes a message in this step, and it is a Data packet for id i.
TakesData(i) == last' # last /\ last'.t = "Data" /\ last'.id = i

\* C11 (as stated): when two Data packets for a StreamId arrive back-to-back
\* and the first one found no entry (it called establish), the second one
\* calls establish no more, so that the two make one call in total.
C11_BackToBackOneSetup ==
    [][\A i \in StreamIds :
          (last.t = "Data" /\ last.id = i /\ last.setup # "none" /\ TakesData(i))
              => setupCalls'[i] = setupCalls[i]]_vars

\* C11 (amended): a Data packet for an id with no registry entry makes exactly
\* one establish call, a Data packet for a registered id makes none, and
\* nothing else calls establish; of two back-to-back Data packets for an
\* unseen id the second calls establish no more when the first call succeeded
\* and its entry is still registered, and calls it again when the registry
\* has no entry for the id (the first call failed, or the entry was removed).
C11_LazyEstablish ==
    [][\A i \in StreamIds :
          /\ TakesData(i) =>
                setupCalls'[i] = setupCalls[i] + (IF ACTIVE_STREAMS[i] = NoChan THEN 1 ELSE 0)
          /\ ~TakesData(i) => setupCalls'[i] = setupCalls[i]
          /\ (last.t = "Data" /\ last.id = i /\ last.setup # "none" /\ TakesData(i))
                => (setupCalls'[i] = setupCalls[i] <=> ACTIVE_STREAMS[i] # NoChan)]_vars

\* Two Data packets for id 1 were the first two events: the first established
\* the stream, the second found the entry, and both payloads were forwarded.
C11_Witness ==
    /\ nEvents = 2 /\ main = "read"
    /\ last.t = "Data" /\ last.id = 1 /\ last.setup = "none"
    /\ setupCalls[1] = 1
    /\ ACTIVE_STREAMS[1] # NoChan /\ Len(chanMsgs[ACTIVE_STREAMS[1]]) = 2

\* C12: once the supervisor has started the next attempt, the writer task of
\* a previous attempt holds its write half no longer (it has stopped) and
\* writes no further packet to that attempt's transport.
C12_PreviousWriterReleased ==
    [][\A a \in Attempts :
          a < attempt => /\ writer[a] # "running"
                         /\ wire'[a] = wire[a]]_vars

\* The first n elements of a sequence.
Prefix(q, n) == SubSeq(q, 1, n)

\* The packets the writer task of attempt a has written: everything on the
\* transport after the hello, which connect_to_wormhole wrote itself.
Written(a) == IF wire[a] = << >> THEN << >> ELSE Tail(wire[a])

\* C13: in every attempt the packets written to the transport are a prefix of
\* the packets enqueued, in the order of enqueueing; what is enqueued and not
\* written is what waits in the queue, unless a failed write has dropped one
\* packet and stopped the writer.
C13_WrittenPrefixOfEnqueued ==
    \A a \in Attempts :
        /\ Len(Written(a)) <= Len(enqLog[a])
        /\ Written(a) = Prefix(enqLog[a], Len(Written(a)))
        /\ writer[a] = "running" => enqLog[a] = Written(a) \o tunnel[a]

\* An attempt's writer has written the kick-off Ping and then a Refused that
\* the dispatcher enqueued after it, with the Ping of a delayed-ping task
\* enqueued behind them.
C13_Witness ==
    \E a \in Attempts :
        /\ Len(Written(a)) >= 2
        /\ Written(a)[1] = Ping /\ Written(a)[2] = Refused(1)
        /\ Len(enqLog[a]) >= 3 /\ enqLog[a][3] = Ping

\* C14: the registry holds no entry that was created during an earlier
\* attempt than the running one, and a Data packet of the running attempt is
\* never forwarded to a stream channel established under an earlier attempt.
C14_NoStreamStateAcrossAttempts ==
    [][/\ \A i \in StreamIds :
             ACTIVE_STREAMS[i] # NoChan => chanOwner[ACTIVE_STREAMS[i]] = attempt
       /\ \A c \in Chans :
             (/\ Len(chanMsgs'[c]) = Len(chanMsgs[c]) + 1
              /\ chanMsgs'[c][Len(chanMsgs'[c])].t = "Data") => chanOwner[c] = attempt]_vars

\* The reader takes a message in this step, and it is Init(i).
TakesInit(i) == last' # last /\ last'.t = "Init" /\ last'.id = i

\* C15: dispatching Init(id) creates no registry entry and no channel, calls
\* establish for nothing, enqueues no packet, puts no message on a stream
\* channel, spawns no task, and leaves the attempt where it was: an Active
\* attempt stays Active, with the reader at its next read.
C15_InitIsNoOp ==
    [][\A i \in StreamIds :
          TakesInit(i) =>
              /\ UNCHANGED << ACTIVE_STREAMS, nChans, chanId, chanOwner, stream >>
              /\ UNCHANGED << setupCalls, chanMsgs, enqLog, tunnel, wire >>
              /\ UNCHANGED << endTasks, pingTasks, proc, attempt, main, cause >>
              /\ (State = "Active" => State' = "Active")]_vars

\* Init(1) was the last message taken by an Active attempt: id 1 is still
\* unregistered, and the kick-off Ping is all that was ever enqueued.
C15_Witness ==
    /\ State = "Active" /\ main = "read"
    /\ last.t = "Init" /\ last.id = 1
    /\ ACTIVE_STREAMS[1] = NoChan /\ setupCalls[1] = 0
    /\ enqLog[attempt] = KickOff

\* The ClientHellos on the transport of attempt a.
HelloCount(a) == Cardinality({ k \in 1..Len(wire[a]) : wire[a][k] = ClientHello })

\* Attempt a has not received ServerHello::Success (yet).
BeforeSuccess(a) == a > attempt \/ (a = attempt /\ main \in {"connect", "handshake"})

\* C16: every attempt that has connected has sent exactly one ClientHello and
\* it is the first message on its transport (no attempt ever sends two); and
\* before the attempt has received ServerHello::Success no packet has been
\* enqueued, nothing but the hello has been written, no writer exists, and
\* the attempt has dispatched no inbound message.
C16_HelloFirstAndOnce ==
    \A a \in Attempts :
        /\ HelloCount(a) <= 1
        /\ wire[a] # << >> => wire[a][1] = ClientHello
        /\ (a < attempt \/ (a = attempt /\ main # "connect")) => HelloCount(a) = 1
        /\ BeforeSuccess(a) =>
              /\ enqLog[a] = << >> /\ tunnel[a] = << >>
              /\ Len(wire[a]) <= 1
              /\ writer[a] = "none"
              /\ pingsRecv[a] = 0
              /\ a = attempt => last = NoLast

\* The second attempt has sent its hello and waits for the reply, after a
\* first attempt whose writer wrote behind its hello and that saw two events.
C16_Witness ==
    /\ proc = "running" /\ attempt = 2 /\ main = "handshake"
    /\ wire[2] = << ClientHello >> /\ enqLog[2] = << >>
    /\ Len(wire[1]) >= 2 /\ nEvents >= 2

\* C17: the supervisor leaves an attempt only when that attempt's own
\* run_wormhole has returned or its own writer has signalled: the signal of
\* an earlier attempt's writer, whenever it is raised, ends no later attempt.
C17_StaleSignalHarmless ==
    [][/\ attempt' # attempt => (main = "returned" \/ restartSig[attempt])
       /\ (\E a \in Attempts : a < attempt /\ restartSig'[a] /\ ~restartSig[a])
             => (attempt' = attempt /\ main' = main /\ State' = State)]_vars

\* The writer of an earlier attempt has signalled, and the running attempt
\* is Active, has dispatched a message, and has no signal of its own.
C17_Witness ==
    /\ attempt >= 2 /\ State = "Active" /\ last # NoLast
    /\ ~restartSig[attempt]
    /\ \E a \in Attempts : a < attempt /\ restartSig[a]

\* C18: a delayed-close task that finishes removes the registry entry only
\* when it is the entry of the channel the task sent Close to; an entry that
\* a later Data registered for the id during the grace period, after the
\* stream task had removed the first one, is still registered afterwards.
C18_RemovesOnlyItsOwnEntry ==
    [][\A t \in endTasks :
          (t.pc = "closed" /\ t \notin endTasks' /\ ACTIVE_STREAMS[t.id] # t.tx)
              => ACTIVE_STREAMS'[t.id] = ACTIVE_STREAMS[t.id]]_vars

\* C19: the delayed-close task of an End(id) that was dispatched while the
\* registry had no entry for id never gets hold of a channel: it sends Close
\* to nothing and removes nothing, also when a Data dispatched after that End
\* has registered an entry for id in the meantime.
C19_EndWithoutEntryNoEffect ==
    \A t \in endTasks : t.seen = NoChan => (t.pc = "spawned" /\ t.tx = NoChan)

\* C20: on every stream channel a Close is the last message the channel ever
\* accepts: there is at most one Close, and no Data behind it.
C20_CloseIsLast ==
    \A c \in Chans : \A k \in 1..Len(chanMsgs[c]) :
        chanMsgs[c][k] = SClose => k = Len(chanMsgs[c])
====
